---- MODULE Spec2Model ----
(***************************************************************************)
(* Model of app.py, the Streamlit "Code Comment Generator".                *)
(*                                                                         *)
(* Text is modelled as a sequence of tokens (a token is a piece of text),  *)
(* so that concatenation, containment and equality of strings are          *)
(* computed.  Temperatures are in hundredths (0.30 is 30, 0.95 is 95).     *)
(* The server process outlives the script runs: every user interaction    *)
(* runs main() once more, and the st.cache_resource memo of load_models    *)
(* lives as long as the process.                                           *)
(***************************************************************************)
EXTENDS Integers, Sequences, FiniteSets, TLC

VARIABLES
    secrets,      \* state of the configuration source read at app.py:13
    cache,        \* st.cache_resource memo of load_models: <<>> or <<value>>
    loads,        \* calls of load_models in this process
    reads,        \* reads of the credential (app.py:13) in this process
    configures,   \* calls of genai.configure (app.py:17) in this process
    constructed,  \* handles constructed (app.py:18) in this process
    handed,       \* handles that load_models returned in this process
    firstLoad,    \* outcome of the first load_models call: "none", "ok", "failed"
    diag,         \* runs of the load_models body, all processes: [kind, ret, msgs]
    policies,     \* safety_settings values passed to model.generate_content
    pc,           \* position of main: "idle", "loop", "clear", "done", "crashed"
    code,         \* user_input_text of this run
    choice,       \* creative_control of this run
    config,       \* config of this run
    submit,       \* submit_button of this run
    i,            \* percent_complete, the loop variable of app.py:143
    bar,          \* my_bar: <<>> (no bar) or <<value>>
    response,     \* response of this run
    requests,     \* calls of get_gemini_response in this run
    call,         \* record of this run's get_gemini_response call: <<>> or <<rec>>
    rendered,     \* what response_placeholder shows: <<>> or <<text>>
    runs,         \* script runs in this process
    restarts      \* process restarts so far

vars == <<secrets, cache, loads, reads, configures, constructed, handed,
          firstLoad, diag, policies, pc, code, choice, config, submit, i, bar,
          response, requests, call, rendered, runs, restarts>>

----------------------------------------------------------------------------
(* Bounds of the model *)

MaxRuns == 2

MaxRestarts == 1

MaxCodeLen == 2

(* Program constants *)

NumSteps == 100

RequestStep == 98

MaxOutputTokens == 2048

TempLow == 30

TempHigh == 95

----------------------------------------------------------------------------
(* Values *)

\* Python None as a return value of get_gemini_response, and a str value.
None == [kind |-> "None", val |-> <<>>]

Str(s) == [kind |-> "str", val |-> s]

\* load_models returns None (no handle) or a GenerativeModel; handles are
\* numbered from 1 in the order of construction.
NoHandle == 0

CodeAlphabet == {"x", "\n"}

SeqsUpTo(S, n) == UNION {[1..k -> S] : k \in 0..n}

Codes == SeqsUpTo(CodeAlphabet, MaxCodeLen)

Choices == {"Low", "High"}

SecretsStates == {"unreadable", "absent", "empty", "invalid", "valid"}

MsgEmpty == <<"API key is empty. Please check your secrets.toml file.">>

MsgNotFound ==
    <<"API key not found in secrets.toml. Please check your secrets configuration.">>

MsgNotLoaded ==
    <<"Model not loaded properly. Check your API key and configuration.">>

ErrPrefix == <<"An error occurred: ">>

\* Descriptions an exception may carry; one of them is the text of a fixed
\* diagnostic, the hardest case for telling the diagnostics apart.
ErrTexts == {<<"quota exceeded">>, MsgNotFound}

ErrClasses == {"KeyError", "OtherError"}

Excs == [cls : ErrClasses, text : ErrTexts]

ModelTexts == {<<>>, <<"# comment">>}

\* What model.generate_content(...) followed by response.text does.
ModelOutcomes ==
    {[kind |-> "text", text |-> t, exc |-> <<>>] : t \in ModelTexts}
    \cup {[kind |-> "raise", text |-> <<>>, exc |-> <<x>>] : x \in Excs}

----------------------------------------------------------------------------
(* Helpers on text *)

\* Whether sequence s occurs in t as a contiguous run.
IsSubstring(s, t) ==
    \E k \in 0..(Len(t) - Len(s)) : SubSeq(t, k + 1, k + Len(s)) = s

\* An except clause naming class handler catches an exception of class cls:
\* every class modelled derives from Exception.
Catches(handler, cls) == handler = "Exception" \/ handler = cls

\* f"An error occurred: {e}" with the prefix dropped.
ErrFmtBare(text) == text

\* f"An error occurred: {e}"
ErrFmt(text) == ErrPrefix \o text

----------------------------------------------------------------------------
(* load_models *)

\* The body of load_models, run on the configuration source in state sec;
\* e is the description of the error the environment raises, if it raises,
\* and nh the handle a successful construction yields.
load_models_body(sec, e, nh) ==
    LET attempt ==
            CASE sec = "unreadable" ->
                   \* st.secrets cannot be read: an error other than KeyError
                   [raised |-> <<[cls |-> "OtherError", text |-> e]>>,
                    ret |-> NoHandle, msgs |-> <<>>,
                    read |-> 1, conf |-> 0, made |-> 0, kind |-> "other"]
              [] sec = "absent" ->
                   \* the section or the key is absent: KeyError
                   [raised |-> <<[cls |-> "KeyError", text |-> <<"'GOOGLE_API_KEY'">>]>>,
                    ret |-> NoHandle, msgs |-> <<>>,
                    read |-> 1, conf |-> 0, made |-> 0, kind |-> "missing"]
              [] sec = "empty" ->
                   [raised |-> <<>>, ret |-> NoHandle, msgs |-> <<MsgEmpty>>,
                    read |-> 1, conf |-> 0, made |-> 0, kind |-> "missing"]
              [] sec = "invalid" ->
                   \* a key is present and the SDK raises on it
                   [raised |-> <<[cls |-> "OtherError", text |-> e]>>,
                    ret |-> NoHandle, msgs |-> <<>>,
                    read |-> 1, conf |-> 1, made |-> 0, kind |-> "other"]
              [] OTHER ->
                   [raised |-> <<>>, ret |-> nh, msgs |-> <<>>,
                    read |-> 1, conf |-> 1, made |-> 1, kind |-> "ok"]
    IN  IF attempt.raised = <<>> THEN attempt
        ELSE IF Catches("KeyError", attempt.raised[1].cls)
             THEN [attempt EXCEPT !.msgs = <<MsgNotFound>>, !.raised = <<>>]
             ELSE IF Catches("Exception", attempt.raised[1].cls)
                  THEN [attempt EXCEPT !.msgs = <<ErrFmt(attempt.raised[1].text)>>,
                                       !.raised = <<>>]
                  ELSE attempt

\* load_models without the memo: the body runs on every call.
load_models_uncached(memo, sec, e, nh) ==
    LET b == load_models_body(sec, e, nh)
    IN  [ret |-> b.ret, cache |-> memo, ran |-> TRUE, msgs |-> b.msgs,
         read |-> b.read, conf |-> b.conf, made |-> b.made, kind |-> b.kind]

\* load_models with a memo that keeps handles only: a None result is
\* computed again on the next call.
load_models_success_only(memo, sec, e, nh) ==
    IF memo # <<>>
    THEN [ret |-> memo[1], cache |-> memo, ran |-> FALSE, msgs |-> <<>>,
          read |-> 0, conf |-> 0, made |-> 0, kind |-> "cached"]
    ELSE LET b == load_models_body(sec, e, nh)
         IN  [ret |-> b.ret,
              cache |-> IF b.ret = NoHandle THEN <<>> ELSE <<b.ret>>,
              ran |-> TRUE, msgs |-> b.msgs,
              read |-> b.read, conf |-> b.conf, made |-> b.made, kind |-> b.kind]

\* load_models under @st.cache_resource: the first call runs the body and
\* memoizes what it returns, None included; later calls return the memo.
load_models(memo, sec, e, nh) ==
    IF memo # <<>>
    THEN [ret |-> memo[1], cache |-> memo, ran |-> FALSE, msgs |-> <<>>,
          read |-> 0, conf |-> 0, made |-> 0, kind |-> "cached"]
    ELSE LET b == load_models_body(sec, e, nh)
         IN  [ret |-> b.ret, cache |-> <<b.ret>>, ran |-> TRUE, msgs |-> b.msgs,
              read |-> b.read, conf |-> b.conf, made |-> b.made, kind |-> b.kind]

----------------------------------------------------------------------------
(* generate_prompt *)

PromptHead ==
    <<"\n", "    You are an AI code comment generator for multiple languages. [...] Here is the code snippet for which code comments need to be generated: ",
      "\n", "\n">>

PromptTail == <<"\n", "    ">>

\* generate_prompt that cuts the snippet to its first token.
generate_prompt_cut(cd) ==
    PromptHead \o SubSeq(cd, 1, IF Len(cd) > 1 THEN 1 ELSE Len(cd)) \o PromptTail

\* The f-string of app.py:31-46: the fixed text with {code} replaced by cd.
generate_prompt(cd) == PromptHead \o cd \o PromptTail

----------------------------------------------------------------------------
(* generative_config *)

\* generative_config comparing with "low": no choice of the radio equals it.
generative_config_case(ch) ==
    [temperature |-> IF ch = "low" THEN TempLow ELSE TempHigh,
     max_output_tokens |-> MaxOutputTokens]

\* generative_config, given what st.radio returns.
generative_config(ch) ==
    [temperature |-> IF ch = "Low" THEN TempLow ELSE TempHigh,
     max_output_tokens |-> MaxOutputTokens]

----------------------------------------------------------------------------
(* get_gemini_response *)

HarmCategories ==
    {"HARM_CATEGORY_HARASSMENT", "HARM_CATEGORY_HATE_SPEECH",
     "HARM_CATEGORY_SEXUALLY_EXPLICIT", "HARM_CATEGORY_DANGEROUS_CONTENT"}

\* safety_settings with one category left at a blocking threshold.
safety_settings_partial ==
    [c \in HarmCategories |->
        IF c = "HARM_CATEGORY_DANGEROUS_CONTENT" THEN "BLOCK_ONLY_HIGH"
        ELSE "BLOCK_NONE"]

\* The dict of app.py:54-59.
safety_settings == [c \in HarmCategories |-> "BLOCK_NONE"]

\* An except clause that names KeyError only.
GeminiHandlesKeyErrorOnly(cls) == Catches("KeyError", cls)

\* The except clause of app.py:68.
GeminiHandles(cls) == Catches("Exception", cls)

NoOutcome == [kind |-> "none", text |-> <<>>, exc |-> <<>>]

\* get_gemini_response without the test of the handle: the model is invoked
\* whatever load_models returned.
get_gemini_response_nocheck(cd, cfg, L, out) ==
    LET prompt == generate_prompt(cd)
        raised == out.kind = "raise"
        caught == raised /\ GeminiHandles(out.exc[1].cls)
    IN  [prompt |-> prompt, handle |-> L.ret, invoked |-> TRUE,
         args |-> <<[prompt |-> prompt, generation_config |-> cfg,
                     safety_settings |-> safety_settings]>>,
         out |-> out,
         ret |-> IF raised THEN None ELSE Str(out.text),
         msgs |-> IF caught THEN <<ErrFmt(out.exc[1].text)>> ELSE <<>>,
         propagated |-> raised /\ ~caught]

\* get_gemini_response(code, config); L is what its call of load_models gave
\* and out what the model does if it is invoked.
get_gemini_response(cd, cfg, L, out) ==
    LET prompt == generate_prompt(cd)
        invoked == L.ret # NoHandle
        raised == invoked /\ out.kind = "raise"
        caught == raised /\ GeminiHandles(out.exc[1].cls)
    IN  [prompt |-> prompt, handle |-> L.ret, invoked |-> invoked,
         args |-> IF invoked
                  THEN <<[prompt |-> prompt, generation_config |-> cfg,
                          safety_settings |-> safety_settings]>>
                  ELSE <<>>,
         out |-> IF invoked THEN out ELSE NoOutcome,
         ret |-> IF ~invoked THEN Str(MsgNotLoaded)
                 ELSE IF raised THEN None ELSE Str(out.text),
         msgs |-> IF caught THEN <<ErrFmt(out.exc[1].text)>> ELSE <<>>,
         propagated |-> raised /\ ~caught]

----------------------------------------------------------------------------
(* main *)

\* A loop that asks the model on every iteration.
IsRequestStepAlways(k) == k >= 0

\* The test of app.py:146.
IsRequestStep(k) == k = RequestStep

Init ==
    /\ secrets \in SecretsStates
    /\ cache = <<>>
    /\ loads = 0
    /\ reads = 0
    /\ configures = 0
    /\ constructed = 0
    /\ handed = {}
    /\ firstLoad = "none"
    /\ diag = {}
    /\ policies = {}
    /\ pc = "idle"
    /\ code = <<>>
    /\ choice = "Low"
    /\ config = <<>>
    /\ submit = FALSE
    /\ i = 0
    /\ bar = <<>>
    /\ response = None
    /\ requests = 0
    /\ call = <<>>
    /\ rendered = <<>>
    /\ runs = 0
    /\ restarts = 0

ProcessVars == <<cache, loads, reads, configures, constructed, handed, firstLoad>>

\* The configuration source is edited while no script run is under way (the
\* source is read only inside the request, so an edit during the loop is an
\* edit before it).
ChangeSecrets(s) ==
    /\ pc # "loop" /\ pc # "clear"
    /\ s # secrets
    /\ secrets' = s
    /\ UNCHANGED <<ProcessVars, diag, policies, pc, code, choice, config, submit,
                   i, bar, response, requests, call, rendered, runs, restarts>>

\* The server process is started again: the memo and the page are gone.
Restart ==
    /\ pc # "loop" /\ pc # "clear"
    /\ restarts < MaxRestarts
    /\ restarts' = restarts + 1
    /\ cache' = <<>>
    /\ loads' = 0
    /\ reads' = 0
    /\ configures' = 0
    /\ constructed' = 0
    /\ handed' = {}
    /\ firstLoad' = "none"
    /\ pc' = "idle"
    /\ code' = <<>>
    /\ choice' = "Low"
    /\ config' = <<>>
    /\ submit' = FALSE
    /\ i' = 0
    /\ bar' = <<>>
    /\ response' = None
    /\ requests' = 0
    /\ call' = <<>>
    /\ rendered' = <<>>
    /\ runs' = 0
    /\ UNCHANGED <<secrets, diag, policies>>

\* A script run starts: main from its first line to the test of
\* submit_button, and with no submit to its end.
StartRun(cd, ch, sb) ==
    /\ pc \in {"idle", "done", "crashed"}
    /\ runs < MaxRuns
    /\ runs' = runs + 1
    /\ code' = cd
    /\ choice' = ch
    /\ config' = <<generative_config(ch)>>
    /\ submit' = sb
    /\ i' = 0
    /\ bar' = IF sb THEN <<0>> ELSE <<>>
    /\ response' = None
    /\ requests' = 0
    /\ call' = <<>>
    /\ rendered' = <<>>
    /\ pc' = IF sb THEN "loop" ELSE "done"
    /\ UNCHANGED <<secrets, ProcessVars, diag, policies, restarts>>

\* One iteration of the loop of app.py:143-147 that is not the request's.
LoopStep ==
    /\ pc = "loop"
    /\ i < NumSteps
    /\ ~IsRequestStep(i)
    /\ bar' = <<i + 1>>
    /\ i' = i + 1
    /\ UNCHANGED <<secrets, ProcessVars, diag, policies, pc, code, choice, config,
                   submit, response, requests, call, rendered, runs, restarts>>

\* The iteration of the loop that calls get_gemini_response.
LoopRequest ==
    /\ pc = "loop"
    /\ i < NumSteps
    /\ IsRequestStep(i)
    /\ \E e \in ErrTexts, out \in ModelOutcomes :
         LET L == load_models(cache, secrets, e, constructed + 1)
             r == get_gemini_response(code, config[1], L, out)
         IN  /\ bar' = <<i + 1>>
             /\ cache' = L.cache
             /\ loads' = loads + 1
             /\ reads' = reads + L.read
             /\ configures' = configures + L.conf
             /\ constructed' = constructed + L.made
             /\ handed' = IF L.ret = NoHandle THEN handed ELSE handed \cup {L.ret}
             /\ firstLoad' = IF loads > 0 THEN firstLoad
                             ELSE IF L.ret = NoHandle THEN "failed" ELSE "ok"
             /\ diag' = IF L.ran
                        THEN diag \cup {[kind |-> L.kind, ret |-> L.ret, msgs |-> L.msgs]}
                        ELSE diag
             /\ policies' = policies \cup {a.safety_settings : a \in {r.args[k] : k \in 1..Len(r.args)}}
             /\ requests' = requests + 1
             /\ call' = <<r @@ [barAt |-> i + 1, code |-> code, config |-> config[1]]>>
             /\ IF r.propagated
                THEN /\ pc' = "crashed"
                     /\ UNCHANGED <<response, i>>
                ELSE /\ pc' = pc
                     /\ response' = r.ret
                     /\ i' = i + 1
    /\ UNCHANGED <<secrets, code, choice, config, submit, rendered, runs, restarts>>

\* my_bar.empty() after the loop.
ClearBar ==
    /\ pc = "loop"
    /\ i = NumSteps
    /\ bar' = <<>>
    /\ pc' = "clear"
    /\ UNCHANGED <<secrets, ProcessVars, diag, policies, code, choice, config,
                   submit, i, response, requests, call, rendered, runs, restarts>>

\* The test of response and the rendering of it, then the footer.
Render ==
    /\ pc = "clear"
    /\ rendered' = IF response # None THEN <<response.val>> ELSE <<>>
    /\ pc' = "done"
    /\ UNCHANGED <<secrets, ProcessVars, diag, policies, code, choice, config,
                   submit, i, bar, response, requests, call, runs, restarts>>

Next ==
    \/ \E s \in SecretsStates : ChangeSecrets(s)
    \/ Restart
    \/ \E cd \in Codes, ch \in Choices, sb \in BOOLEAN : StartRun(cd, ch, sb)
    \/ LoopStep
    \/ LoopRequest
    \/ ClearBar
    \/ Render

Spec == Init /\ [][Next]_vars

----------------------------------------------------------------------------
(* Claims *)

C2_ReturnCarriesDescription ==
    (call # <<>> /\ call[1].invoked /\ call[1].out.kind = "raise") =>
        /\ ~call[1].propagated
        /\ call[1].ret.kind = "str"
        /\ IsSubstring(call[1].out.exc[1].text, call[1].ret.val)

\* C2 amended: when the model invocation raises, get_gemini_response does
\* not propagate the error, returns None, and emits through st.error one
\* diagnostic, "An error occurred: " followed by the description of the
\* error.
C2_ErrorCaughtAndReported ==
    (call # <<>> /\ call[1].invoked /\ call[1].out.kind = "raise") =>
        /\ ~call[1].propagated
        /\ pc # "crashed"
        /\ call[1].ret = None
        /\ call[1].msgs = <<<<"An error occurred: ">> \o call[1].out.exc[1].text>>

C2_Witness ==
    /\ call # <<>>
    /\ call[1].invoked
    /\ call[1].out.kind = "raise"
    /\ call[1].out.exc[1].cls = "OtherError"
    /\ pc = "done"
    /\ rendered = <<>>

\* C3: every call of get_gemini_response yields a Success (a value main
\* renders as the response, that is a value other than None) exactly when
\* the model was invoked and returned its text, and a Failure in every
\* other case (no handle, or invocation error).
C3_SuccessOnlyFromModel ==
    call # <<>> =>
        ((call[1].ret # None) <=> (call[1].invoked /\ call[1].out.kind = "text"))

\* C4: in a process whose first load_models call found a present and valid
\* credential, the credential is read once, genai.configure is run once, one
\* handle is constructed, and every call returns that handle.
C4_SingleHandle ==
    firstLoad = "ok" =>
        /\ reads = 1
        /\ configures = 1
        /\ constructed = 1
        /\ Cardinality(handed) = 1
        /\ (call # <<>> => call[1].handle \in handed)

C4_Witness ==
    /\ firstLoad = "ok"
    /\ loads >= 2
    /\ pc = "clear"
    /\ secrets # "valid"
    /\ call[1].handle \in handed

\* C5: a load_models run on an absent or empty key returns no handle and
\* emits one diagnostic, and that diagnostic differs from the diagnostic of
\* every load_models run that failed on another error.
C5_MissingKeyDistinct ==
    \A p \in diag :
        p.kind = "missing" =>
            /\ p.ret = NoHandle
            /\ Len(p.msgs) = 1
            /\ \A q \in diag : q.kind = "other" => q.msgs # p.msgs

C5_Witness ==
    \E p \in diag, q \in diag :
        /\ p.kind = "missing"
        /\ p.msgs = <<MsgNotFound>>
        /\ q.kind = "other"
        /\ q.msgs = <<<<"An error occurred: ">> \o MsgNotFound>>

\* C6: the config of a run has max_output_tokens = 2048 and temperature 0.30
\* for Low and 0.95 for High (in hundredths: 30 and 95), and no other value.
C6_ConfigMapping ==
    config # <<>> =>
        /\ DOMAIN config[1] = {"temperature", "max_output_tokens"}
        /\ config[1].max_output_tokens = 2048
        /\ (choice = "Low" => config[1].temperature = 30)
        /\ (choice = "High" => config[1].temperature = 95)
        /\ config[1].temperature \in {30, 95}

C6_Witness ==
    /\ config # <<>>
    /\ choice = "High"
    /\ config[1].temperature = 95
    /\ runs = 2

\* C7: every invocation of the model passes a safety policy whose domain is
\* the four categories, each mapped to BLOCK_NONE, and the policy is the
\* same in every call.
C7_SafetyPolicyFixed ==
    LET four == {"HARM_CATEGORY_HARASSMENT", "HARM_CATEGORY_HATE_SPEECH",
                 "HARM_CATEGORY_SEXUALLY_EXPLICIT", "HARM_CATEGORY_DANGEROUS_CONTENT"}
    IN  /\ \A pol \in policies :
              /\ DOMAIN pol = four
              /\ \A c \in four : pol[c] = "BLOCK_NONE"
        /\ Cardinality(policies) <= 1
        /\ (call # <<>> /\ call[1].invoked) =>
              /\ Len(call[1].args) = 1
              /\ call[1].args[1].safety_settings \in policies

C7_Witness ==
    /\ call # <<>>
    /\ call[1].invoked
    /\ loads >= 2
    /\ call[1].config.temperature = 95
    /\ call[1].code # <<>>
    /\ Cardinality(policies) = 1

\* C8: the prompt built for a code string is the fixed head, then the code
\* verbatim, then the fixed tail; so the code occurs in it as a contiguous
\* run, the empty code included.
C8_PromptContainsCode ==
    call # <<>> =>
        LET p == call[1].prompt
            c == call[1].code
        IN  /\ IsSubstring(c, p)
            /\ Len(p) = Len(PromptHead) + Len(c) + Len(PromptTail)
            /\ SubSeq(p, 1, Len(PromptHead)) = PromptHead
            /\ SubSeq(p, Len(PromptHead) + 1, Len(PromptHead) + Len(c)) = c
            /\ SubSeq(p, Len(PromptHead) + Len(c) + 1, Len(p)) = PromptTail

C8_Witness ==
    /\ call # <<>>
    /\ call[1].code = <<"\n", "x">>
    /\ IsSubstring(<<"\n", "x">>, call[1].prompt)

\* C9: in a process whose first load_models call failed, the credential is
\* read once and never again, no handle is ever constructed or returned, and
\* every get_gemini_response call returns the fixed "model not loaded" text
\* without invoking the model.
C9_FailureMemoized ==
    firstLoad = "failed" =>
        /\ reads = 1
        /\ constructed = 0
        /\ handed = {}
        /\ cache = <<NoHandle>>
        /\ call # <<>> =>
              /\ call[1].ret = [kind |-> "str", val |-> MsgNotLoaded]
              /\ ~call[1].invoked

C9_Witness ==
    /\ firstLoad = "failed"
    /\ loads >= 2
    /\ pc = "clear"
    /\ secrets = "valid"
    /\ call[1].ret = Str(MsgNotLoaded)

\* C10: in a run of main at most one request is made, only on a submit, and
\* a finished run has made one exactly when it was a submit; the request is
\* made with the bar at 99 of its 100 steps; a result is rendered only after
\* the 100 steps and the clearing of the bar.
C10_RequestPerSubmit ==
    /\ requests <= 1
    /\ (requests = 1) <=> (call # <<>>)
    /\ requests = 1 => (submit /\ call[1].barAt = 99)
    /\ pc = "done" => requests = (IF submit THEN 1 ELSE 0)
    /\ rendered # <<>> => (requests = 1 /\ i = 100 /\ bar = <<>> /\ pc = "done")

C10_Witness ==
    /\ pc = "done"
    /\ submit
    /\ requests = 1
    /\ rendered # <<>>
    /\ call[1].barAt = 99

====
